---- MODULE Spec2Model ----
(***************************************************************************)
(* A model of appbase's application kernel (src/application.cpp): the      *)
(* plugin registry and lifecycle controller, the command-line / config-    *)
(* file merge of initialize_impl, and the run loop of exec.                *)
(*                                                                         *)
(* Text that the code splits or converts (a --plugin value, an option's    *)
(* token) is a sequence of one-character strings; names the code only      *)
(* compares (option long names, path components) are plain strings.        *)
(***************************************************************************)
EXTENDS Integers, Sequences, FiniteSets, TLC

\* ------------------------------------------------------------------ bounds
\* Longest --plugin value, in characters.
MaxArgLen == 3
\* Most lines of a config file.
MaxFileLines == 2
\* Most entries of the host's autostart list.
MaxAutostart == 2

\* ------------------------------------------------------------------- text
TAB == "\t"

\* boost::is_any_of(" \t,")
Separators == {" ", TAB, ","}

RECURSIVE SplitFrom(_, _, _)
SplitFrom(s, i, cur) ==
    IF i > Len(s) THEN <<cur>>
    ELSE IF s[i] \in Separators
         THEN <<cur>> \o SplitFrom(s, i + 1, <<>>)
         ELSE SplitFrom(s, i + 1, Append(cur, s[i]))

\* A split that drops the empty fields.
split_compressing(arg) == SelectSeq(SplitFrom(arg, 1, <<>>), LAMBDA n : n # <<>>)

\* boost::split(names, arg, is_any_of(" \t,")): token_compress_off, so every
\* separator closes a field and n separators give n + 1 fields.
split(arg) == SplitFrom(arg, 1, <<>>)

RECURSIVE Reverse(_)
Reverse(s) == IF s = <<>> THEN <<>> ELSE Append(Reverse(Tail(s)), Head(s))

Range(s) == {s[i] : i \in DOMAIN s}

IsPrefix(a, b) == Len(a) <= Len(b) /\ a = SubSeq(b, 1, Len(a))

\* Sequences over S of length lo..hi.
SeqsOf(S, lo, hi) == UNION {[1..n -> S] : n \in lo..hi}

\* ------------------------------------------------------------------ paths
\* A path is the sequence of its elements; "/" is the root directory.
IsRelative(p) == p = <<>> \/ p[1] # "/"

\* bfs::current_path()
CurrentPath == <<"/", "cwd">>

\* application_impl::_config_dir
DefaultConfigDir == <<"config-dir">>

DefaultConfigName == <<"config.ini">>

\* ----------------------------------------------------------------- schema
NoValue == "no-value"

\* The plugin option declared without composing().
PluginOptionNotComposing ==
    [name |-> "plugin", type |-> "vector<string>", composing |-> FALSE,
     has_default |-> FALSE, default |-> NoValue]

\* The composing application option added by set_program_options.
PluginOption ==
    [name |-> "plugin", type |-> "vector<string>", composing |-> TRUE,
     has_default |-> FALSE, default |-> NoValue]

\* Config options declared by the plugins (plug.second->set_program_options).
PluginCfgOptions ==
    << [name |-> "foo", type |-> "bool", composing |-> FALSE,
        has_default |-> TRUE, default |-> FALSE],
       [name |-> "odd", type |-> "float", composing |-> FALSE,
        has_default |-> TRUE, default |-> 1],
       [name |-> "bar", type |-> "int", composing |-> FALSE,
        has_default |-> TRUE, default |-> 10],
       [name |-> "tag", type |-> "string", composing |-> FALSE,
        has_default |-> FALSE, default |-> NoValue],
       [name |-> "lst", type |-> "vector<string>", composing |-> TRUE,
        has_default |-> TRUE, default |-> << <<"x">> >>] >>

\* my->_cfg_options after set_program_options: the plugins' config options,
\* then the application's config options.
cfg_options == Append(PluginCfgOptions, PluginOption)

OptionNames(desc) == {desc[i].name : i \in DOMAIN desc}

FindOption(desc, key) == desc[CHOOSE i \in DOMAIN desc : desc[i].name = key]

\* A comparison map that also holds float.
any_compare_map_with_float ==
    {"string", "bool", "uint32_t", "uint64_t", "int", "double",
     "vector<string>", "path", "float"}

\* application_impl(): the types registered for default comparison.
any_compare_map ==
    {"string", "bool", "uint32_t", "uint64_t", "int", "double",
     "vector<string>", "path"}

\* ---------------------------------------------------------- token parsing
Digits == <<"0", "1", "2", "3", "4", "5", "6", "7", "8", "9">>

IsDigit(c) == \E d \in DOMAIN Digits : Digits[d] = c

DigitVal(c) == (CHOOSE d \in DOMAIN Digits : Digits[d] = c) - 1

RECURSIVE DecimalVal(_, _)
DecimalVal(tok, acc) ==
    IF tok = <<>> THEN acc
    ELSE DecimalVal(Tail(tok), 10 * acc + DigitVal(Head(tok)))

IsDecimal(tok) == tok # <<>> /\ \A i \in DOMAIN tok : IsDigit(tok[i])

BoolTrue == { <<>>, <<"o","n">>, <<"y","e","s">>, <<"1">>, <<"t","r","u","e">> }
BoolFalse == { <<"o","f","f">>, <<"n","o">>, <<"0">>, <<"f","a","l","s","e">> }

\* Whether value_semantic::parse accepts the token for the option's type.
Parses(od, tok) ==
    CASE od.type = "bool" -> tok \in BoolTrue \cup BoolFalse
      [] od.type \in {"int", "float"} -> IsDecimal(tok)
      [] OTHER -> TRUE

\* value_semantic::parse(store, tokens): the typed value of one token; a vector
\* option appends it to the vector `old` already stored (<<>> when none is).
ParseValue(od, old, tok) ==
    CASE od.type = "bool" -> tok \in BoolTrue
      [] od.type \in {"int", "float"} -> DecimalVal(tok, 0)
      [] od.type = "vector<string>" -> Append(old, tok)
      [] OTHER -> tok

\* ------------------------------------------------------- bpo::variables_map
\* val: the stored values; defaulted: the keys holding a default; final: the
\* keys an earlier store call has fixed.
EmptyMap == [val |-> <<>>, defaulted |-> {}, final |-> {}]

Put(f, key, v) == [k \in DOMAIN f \cup {key} |-> IF k = key THEN v ELSE f[k]]

\* The first pass of bpo::store: every parsed option whose key is not final is
\* parsed into the map (a defaulted value is dropped first); a second
\* occurrence of a non-composing option, or a token that does not parse,
\* throws. new_final collects the non-composing keys this call has set.
RECURSIVE StoreOptions(_, _, _, _, _)
StoreOptions(entries, i, vm, new_final, desc) ==
    IF i > Len(entries)
    THEN [ok |-> TRUE,
          vm |-> [vm EXCEPT !.final = vm.final \cup new_final]]
    ELSE LET key == entries[i].key
             od == FindOption(desc, key)
             held == key \in DOMAIN vm.val /\ key \notin vm.defaulted
             old == IF held /\ od.type = "vector<string>"
                    THEN vm.val[key] ELSE <<>>
         IN  IF key \in vm.final
             THEN StoreOptions(entries, i + 1, vm, new_final, desc)
             ELSE IF ~Parses(od, entries[i].value)
             THEN [ok |-> FALSE, vm |-> vm]
             ELSE IF held /\ od.type # "vector<string>"
             THEN [ok |-> FALSE, vm |-> vm]
             ELSE StoreOptions(entries, i + 1,
                     [vm EXCEPT
                        !.val = Put(vm.val, key,
                                    ParseValue(od, old, entries[i].value)),
                        !.defaulted = vm.defaulted \ {key}],
                     IF od.composing THEN new_final
                     ELSE new_final \cup {key},
                     desc)

\* The second pass of bpo::store: an option of desc with no value yet takes
\* its default, marked defaulted.
ApplyDefaults(vm, desc) ==
    LET missing == {i \in DOMAIN desc :
                      desc[i].has_default /\ desc[i].name \notin DOMAIN vm.val}
        names == {desc[i].name : i \in missing}
    IN  [vm EXCEPT
           !.val = [k \in DOMAIN vm.val \cup names |->
                      IF k \in DOMAIN vm.val THEN vm.val[k]
                      ELSE FindOption(desc, k).default],
           !.defaulted = vm.defaulted \cup names]

\* A variant of store that lets a later source overwrite an earlier one.
store_overwriting(entries, vm, desc) ==
    LET r == StoreOptions(entries, 1,
                 [vm EXCEPT !.final = {}, !.defaulted = DOMAIN vm.val], {}, desc)
    IN  IF r.ok THEN [ok |-> TRUE, vm |-> ApplyDefaults(r.vm, desc)] ELSE r

\* bpo::store(parsed, options)
store(entries, vm, desc) ==
    LET r == StoreOptions(entries, 1, vm, {}, desc)
    IN  IF r.ok THEN [ok |-> TRUE, vm |-> ApplyDefaults(r.vm, desc)] ELSE r

\* ------------------------------------------------------------ config file
\* A file is a sequence of lines: a comment, or an entry key = value.
Comment(text) == [kind |-> "comment", key |-> text, value |-> <<>>]
Entry(key, value) == [kind |-> "entry", key |-> key, value |-> value]

SelectEntries(lines) == SelectSeq(lines, LAMBDA l : l.kind = "entry")

\* bpo::parse_config_file(name, my->_cfg_options, false): the entries in file
\* order; a key that is not a config option throws.
parse_config_file(lines, desc) ==
    LET es == SelectEntries(lines)
    IN  IF \E i \in DOMAIN es : es[i].key \notin OptionNames(desc)
        THEN [ok |-> FALSE, options |-> <<>>]
        ELSE [ok |-> TRUE, options |-> es]

Blank == [kind |-> "blank", key |-> "", value |-> <<>>]

RECURSIVE FormatDecimal(_)
FormatDecimal(n) ==
    IF n < 10 THEN <<Digits[n + 1]>>
    ELSE Append(FormatDecimal(n \div 10), Digits[(n % 10) + 1])

\* The text print_default_config writes after "name = ": nothing without a
\* default, true/false for a bool, else what format_parameter shows between
\* "arg (=" and ")".
DefaultText(od) ==
    IF ~od.has_default THEN <<>>
    ELSE CASE od.type = "bool" ->
                IF od.default THEN <<"t","r","u","e">>
                ELSE <<"f","a","l","s","e">>
           [] od.type \in {"int", "float"} -> FormatDecimal(od.default)
           [] od.type = "vector<string>" ->
                IF od.default = <<>> THEN <<>> ELSE od.default[1]
           [] OTHER -> od.default

\* A template whose "name = value" lines are not commented out.
TemplateFromUncommented(desc, i) ==
    [j \in 1..(Len(desc) - i + 1) |-> Entry(desc[i + j - 1].name,
                                            DefaultText(desc[i + j - 1]))]

RECURSIVE TemplateFrom(_, _)
TemplateFrom(desc, i) ==
    IF i > Len(desc) THEN <<>>
    ELSE << Comment(desc[i].name),
            [kind |-> "comment", key |-> desc[i].name,
             value |-> DefaultText(desc[i])],
            Blank >> \o TemplateFrom(desc, i + 1)

\* application::print_default_config: for every config option a description
\* line, the line "# name = value", and an empty line.
print_default_config == TemplateFrom(cfg_options, 1)

\* application::write_default_config(cfg_file)
write_default_config(files, cfg_file) == Put(files, cfg_file, print_default_config)

\* ---------------------------------------------------------------- plugins
PluginNames == { <<"A">>, <<"B">>, <<"C">> }

\* A null entry of the autostart list.
nullptr == <<>>

\* A lookup that takes any name of a plugin class for a registered one.
find_plugin_any(plugins, name) == name \in PluginNames

\* application::find_plugin / application::get_plugin: whether the registry
\* holds the name; get_plugin throws when it does not.
find_plugin(plugins, name) == name \in plugins

\* plugin::initialize(options): from registered, runs the initialization hook,
\* moves to initialized and joins the initialized-order list; otherwise a no-op.
plugin_initialize(L, p) ==
    IF L.state[p] = "registered"
    THEN [state |-> [L.state EXCEPT ![p] = "initialized"],
          initialized |-> Append(L.initialized, p)]
    ELSE L

\* The loop over the names of one --plugin value and over the values:
\* get_plugin(name).initialize(options), stopping at the first name the
\* registry does not hold.
RECURSIVE InitializeNamed(_, _, _, _)
InitializeNamed(names, i, L, plugins) ==
    IF i > Len(names) THEN [ok |-> TRUE, L |-> L, unknown |-> <<>>]
    ELSE IF ~find_plugin(plugins, names[i])
         THEN [ok |-> FALSE, L |-> L, unknown |-> names[i]]
         ELSE InitializeNamed(names, i + 1, plugin_initialize(L, names[i]), plugins)

RECURSIVE SplitAll(_, _)
SplitAll(args, i) ==
    IF i > Len(args) THEN <<>> ELSE split(args[i]) \o SplitAll(args, i + 1)

\* Autostart entries are initialized whatever their state.
InitializeAutostartAlways(autostart, i, L) ==
    LET RECURSIVE go(_, _)
        go(j, M) ==
            IF j > Len(autostart) THEN M
            ELSE go(j + 1,
                    IF autostart[j] # nullptr
                    THEN [state |-> [M.state EXCEPT ![autostart[j]] = "initialized"],
                          initialized |-> Append(M.initialized, autostart[j])]
                    ELSE M)
    IN  go(i, L)

\* The loop over autostart_plugins: an entry that is not null and still
\* registered is initialized.
RECURSIVE InitializeAutostart(_, _, _)
InitializeAutostart(autostart, i, L) ==
    IF i > Len(autostart) THEN L
    ELSE InitializeAutostart(autostart, i + 1,
            IF autostart[i] # nullptr /\ L.state[autostart[i]] = "registered"
            THEN plugin_initialize(L, autostart[i])
            ELSE L)

\* ------------------------------------------------------ default collisions
FirstEntry(entries, key) ==
    LET hits == {i \in DOMAIN entries : entries[i].key = key}
    IN  IF hits = {} THEN 0 ELSE CHOOSE i \in hits : \A j \in hits : i <= j

\* The loop over my->_cfg_options.options(): an option with a default whose
\* first entry in the config file parses to a value equal to the default joins
\* set_but_default_list; a type any_compare_map does not hold is reported on
\* its own and skipped; a token that does not parse throws.
RECURSIVE DefaultCollisions(_, _, _, _)
DefaultCollisions(desc, i, entries, acc) ==
    IF i > Len(desc) THEN acc
    ELSE LET od == desc[i]
             at == FirstEntry(entries, od.name)
         IN  IF ~od.has_default \/ at = 0
             THEN DefaultCollisions(desc, i + 1, entries, acc)
             ELSE IF ~Parses(od, entries[at].value)
             THEN [acc EXCEPT !.ok = FALSE]
             ELSE IF od.type \notin any_compare_map
             THEN DefaultCollisions(desc, i + 1, entries,
                     [acc EXCEPT !.unregistered = Append(@, od.name)])
             ELSE IF od.default = ParseValue(od, <<>>, entries[at].value)
             THEN DefaultCollisions(desc, i + 1, entries,
                     [acc EXCEPT !.list = Append(@, od.name)])
             ELSE DefaultCollisions(desc, i + 1, entries, acc)

set_but_default(entries) ==
    DefaultCollisions(cfg_options, 1, entries,
                      [ok |-> TRUE, list |-> <<>>, unregistered |-> <<>>])

\* ---------------------------------------------------------- initialize_impl
\* A command line: the options given without a value among help, version and
\* print-default-config, plus "config-dir" and "config" when those carry a
\* value; the values of config-dir and config; and the config-schema options
\* in command-line order.
Flags == {"help", "version", "print-default-config"}

\* The config file name after resolution against the config directory.
ConfigFileName(cmd, dir) ==
    LET name == IF "config" \in cmd.given THEN cmd.config ELSE DefaultConfigName
    IN  IF IsRelative(name) THEN dir \o name ELSE name

\* my->_config_dir after the config-dir option is applied.
ConfigDir(cmd, dir) ==
    IF "config-dir" \in cmd.given
    THEN IF IsRelative(cmd.config_dir) THEN CurrentPath \o cmd.config_dir
         ELSE cmd.config_dir
    ELSE dir

\* A variant that goes on whatever flags the command line carries.
StopsAtFlagNever(cmd) == FALSE

\* Whether initialize_impl returns at options.count("help"), "version" or
\* "print-default-config".
StopsAtFlag(cmd) == cmd.given \cap Flags # {}

\* A variant that synthesizes whatever config file is missing.
IsDefaultConfigAny(cfg_file, dir) == TRUE

\* Whether a missing config file is the one initialize_impl may synthesize.
IsDefaultConfig(cfg_file, dir) == cfg_file = dir \o <<"config.ini">>

Outcome(result, why, L, dir, fs, vm, collisions) ==
    [result |-> result, why |-> why, state |-> L.state,
     initialized |-> L.initialized, config_dir |-> dir, files |-> fs,
     options |-> vm.val, set_but_default_list |-> collisions.list,
     unregistered |-> collisions.unregistered]

NoCollisions == [ok |-> TRUE, list |-> <<>>, unregistered |-> <<>>]

\* The part of initialize_impl after the config file is known to exist:
\* parse it, store it, detect the default collisions, initialize the plugins.
LoadAndInitialize(cmd, autostart, L, plugins, dir, fs, cfg_file, options) ==
    LET parsed == parse_config_file(fs[cfg_file], cfg_options)
        merged == store(parsed.options, options, cfg_options)
        found == set_but_default(parsed.options)
        args == IF "plugin" \in DOMAIN merged.vm.val
                THEN merged.vm.val["plugin"] ELSE <<>>
        named == InitializeNamed(SplitAll(args, 1), 1, L, plugins)
    IN  IF ~parsed.ok
        THEN Outcome("exception", "unknown-option", L, dir, fs, options, NoCollisions)
        ELSE IF ~merged.ok
        THEN Outcome("exception", "invalid-value", L, dir, fs, options, NoCollisions)
        ELSE IF ~found.ok
        THEN Outcome("exception", "invalid-value", L, dir, fs, merged.vm, NoCollisions)
        ELSE IF ~named.ok
        THEN Outcome("exception", "plugin-not-found", named.L, dir, fs,
                     merged.vm, found)
        ELSE Outcome("true", "initialized",
                     InitializeAutostart(autostart, 1, named.L),
                     dir, fs, merged.vm, found)

\* application::initialize_impl(argc, argv, autostart_plugins) from the state
\* st = [plugins, state, initialized, config_dir, files].
initialize_impl(cmd, autostart, st) ==
    LET L == [state |-> st.state, initialized |-> st.initialized]
        cli == store(cmd.opts, EmptyMap, cfg_options)
        dir == ConfigDir(cmd, st.config_dir)
        cfg_file == ConfigFileName(cmd, dir)
    IN  IF ~cli.ok
        THEN Outcome("exception", "invalid-value", L, st.config_dir, st.files,
                     EmptyMap, NoCollisions)
        ELSE IF StopsAtFlag(cmd)
        THEN Outcome("false",
                     IF "help" \in cmd.given THEN "help"
                     ELSE IF "version" \in cmd.given THEN "version"
                     ELSE "print-default-config",
                     L, st.config_dir, st.files, cli.vm, NoCollisions)
        ELSE IF cfg_file \notin DOMAIN st.files /\ ~IsDefaultConfig(cfg_file, dir)
        THEN Outcome("false", "config-missing", L, dir, st.files, cli.vm,
                     NoCollisions)
        ELSE LoadAndInitialize(cmd, autostart, L, st.plugins, dir,
                IF cfg_file \in DOMAIN st.files THEN st.files
                ELSE write_default_config(st.files, cfg_file),
                cfg_file, cli.vm)

\* ------------------------------------------------------------------ state
VARIABLES
    plugins,              \* application::plugins: the names in the registry
    state,                \* each plugin's lifecycle state ("absent": no such object)
    initialized_plugins,  \* application::initialized_plugins
    running_plugins,      \* application::running_plugins
    config_dir,           \* my->_config_dir
    files,                \* the config files that exist, path -> lines
    io_serv,              \* the io_service: alive (not reset), stopped
    waits,                \* the signals whose async_wait is pending
    ready,                \* the signals whose handler is queued on the loop
    pc,                   \* where the host's thread is
    idx,                  \* the position of the loop the thread is in
    via,                  \* who called shutdown: "host", "startup" or "exec"
    exc,                  \* the exception startup's catch block holds
    ret,                  \* the last call that returned, and how
    hooks,                \* the plugin hooks invoked so far, in order
    sd                    \* the registry and started order when shutdown began

vars == <<plugins, state, initialized_plugins, running_plugins, config_dir,
          files, io_serv, waits, ready, pc, idx, via, exc, ret, hooks, sd>>

Signals == {"SIGINT", "SIGTERM", "SIGPIPE"}

NoExc == [kind |-> "none", plugin |-> <<>>]

InitCommon ==
    /\ plugins = {}
    /\ state = [p \in PluginNames |-> "absent"]
    /\ initialized_plugins = <<>>
    /\ running_plugins = <<>>
    /\ config_dir = DefaultConfigDir
    /\ io_serv = [alive |-> TRUE, stopped |-> FALSE]
    /\ waits = {}
    /\ ready = {}
    /\ pc = "setup"
    /\ idx = 0
    /\ via = "host"
    /\ exc = NoExc
    /\ ret = [op |-> "none"]
    /\ hooks = <<>>
    /\ sd = [registry |-> {}, running |-> <<>>, initialized |-> <<>>,
            mark |-> 0]

\* ----------------------------------------------------------- registration
\* application::register_plugin: a new plugin enters the registry registered.
Register(p) ==
    /\ pc = "setup"
    /\ p \notin plugins
    /\ plugins' = plugins \cup {p}
    /\ state' = [state EXCEPT ![p] = "registered"]
    /\ ret' = [op |-> "register"]
    /\ UNCHANGED <<initialized_plugins, running_plugins, config_dir, files,
                   io_serv, waits, ready, pc, idx, via, exc, hooks, sd>>

\* application::set_default_config_dir
SetDefaultConfigDir(d) ==
    /\ pc = "setup"
    /\ config_dir # d
    /\ config_dir' = d
    /\ ret' = [op |-> "set_default_config_dir"]
    /\ UNCHANGED <<plugins, state, initialized_plugins, running_plugins, files,
                   io_serv, waits, ready, pc, idx, via, exc, hooks, sd>>

\* ------------------------------------------------------------- initialize
\* The autostart lists a host can pass: registered plugins and null entries.
Autostarts == SeqsOf(plugins \cup {nullptr}, 0, MaxAutostart)

\* application::initialize: initialize_impl on a command line and an autostart
\* list. The host goes on only when it returns true.
Initialize(cmd, autostart) ==
    /\ pc = "setup"
    /\ LET r == initialize_impl(cmd, autostart,
                   [plugins |-> plugins, state |-> state,
                    initialized |-> initialized_plugins,
                    config_dir |-> config_dir, files |-> files])
       IN  /\ state' = r.state
           /\ initialized_plugins' = r.initialized
           /\ config_dir' = r.config_dir
           /\ files' = r.files
           /\ pc' = IF r.result = "true" THEN "idle" ELSE "exited"
           /\ ret' = [op |-> "initialize", cmd |-> cmd, autostart |-> autostart,
                      result |-> r.result, why |-> r.why,
                      options |-> r.options,
                      set_but_default_list |-> r.set_but_default_list,
                      unregistered |-> r.unregistered,
                      before |-> [plugins |-> plugins,
                                  state |-> state, files |-> files,
                                  initialized |-> initialized_plugins,
                                  config_dir |-> config_dir]]
    /\ UNCHANGED <<plugins, running_plugins, io_serv, waits, ready, idx, via,
                   exc, hooks, sd>>

\* The host or a plugin calls application::get_plugin(name) after
\* initialization: the registered plugin, or an exception.
GetPlugin(name) ==
    /\ pc = "idle"
    /\ ret' = [op |-> "get_plugin", name |-> name,
               result |-> IF find_plugin(plugins, name) THEN "ok" ELSE "exception",
               before |-> [plugins |-> plugins]]
    /\ UNCHANGED <<plugins, state, initialized_plugins, running_plugins,
                   config_dir, files, io_serv, waits, ready, pc, idx, via, exc,
                   hooks, sd>>

\* ---------------------------------------------------------------- startup
\* A startup() that does not check the state it starts from.
plugin_startup_unchecked(p, st, ok) ==
    IF ok THEN [state |-> "started", hook |-> TRUE, thrown |-> NoExc]
    ELSE [state |-> st, hook |-> TRUE,
          thrown |-> [kind |-> "startup", plugin |-> p]]

\* plugin::startup() on a plugin in state st, whose hook succeeds iff ok: from
\* initialized the hook runs and the plugin becomes started; from registered
\* the call fails with an invalid-state error; otherwise it is a no-op.
plugin_startup(p, st, ok) ==
    IF st = "registered"
    THEN [state |-> st, hook |-> FALSE,
          thrown |-> [kind |-> "invalid-state", plugin |-> p]]
    ELSE IF st = "initialized"
    THEN IF ok THEN [state |-> "started", hook |-> TRUE, thrown |-> NoExc]
         ELSE [state |-> st, hook |-> TRUE,
               thrown |-> [kind |-> "startup", plugin |-> p]]
    ELSE [state |-> st, hook |-> FALSE, thrown |-> NoExc]

Started(p, r) ==
    IF r.state = "started" /\ state[p] # "started"
    THEN Append(running_plugins, p) ELSE running_plugins

Logged(p, r) ==
    IF r.hook
    THEN Append(hooks, [op |-> "startup", plugin |-> p, ok |-> r.thrown = NoExc])
    ELSE hooks

\* application::shutdown is entered: its first loop starts at rbegin().
EnterShutdown(who) ==
    /\ pc' = "sd_loop"
    /\ idx' = 1
    /\ via' = who
    /\ sd' = [registry |-> plugins, running |-> running_plugins,
              initialized |-> initialized_plugins, mark |-> Len(hooks)]

\* A call the host has made and that has not returned yet.
InCall(op) == [op |-> op, result |-> "pending", exception |-> NoExc]

\* The host calls application::startup.
StartupBegin ==
    /\ pc = "idle"
    /\ pc' = "startup"
    /\ idx' = 1
    /\ exc' = NoExc
    /\ ret' = InCall("startup")
    /\ UNCHANGED <<plugins, state, initialized_plugins, running_plugins,
                   config_dir, files, io_serv, waits, ready, via, hooks, sd>>

\* A loop that walks initialized_plugins from its end.
startup_order_backward(initialized) == Reverse(initialized)

\* The order of startup's loop: initialized_plugins from begin() to end().
startup_order(initialized) == initialized

\* One turn of startup's loop, plugin->startup(); a throw enters the catch
\* block, which calls shutdown().
StartupStep ==
    /\ pc = "startup"
    /\ idx <= Len(initialized_plugins)
    /\ \E ok \in BOOLEAN :
         LET p == startup_order(initialized_plugins)[idx]
             r == plugin_startup(p, state[p], ok)
         IN  /\ state' = [state EXCEPT ![p] = r.state]
             /\ running_plugins' = Started(p, r)
             /\ hooks' = Logged(p, r)
             /\ IF r.thrown = NoExc
                THEN /\ idx' = idx + 1
                     /\ UNCHANGED <<pc, via, exc, sd>>
                ELSE /\ exc' = r.thrown
                     /\ EnterShutdown("startup")
    /\ UNCHANGED <<plugins, initialized_plugins, config_dir, files, io_serv,
                   waits, ready, ret>>

\* startup's loop is over: the call returns.
StartupReturn ==
    /\ pc = "startup"
    /\ idx > Len(initialized_plugins)
    /\ pc' = "idle"
    /\ ret' = [op |-> "startup", result |-> "ok", exception |-> NoExc]
    /\ UNCHANGED <<plugins, state, initialized_plugins, running_plugins,
                   config_dir, files, io_serv, waits, ready, idx, via, exc,
                   hooks, sd>>

\* Where the host's thread goes when a call it made ends: an exception that
\* reaches the host is fatal, and the process exits.
AfterCall(thrown) == IF thrown = NoExc THEN "idle" ELSE "exited"

\* The host calls startup() on one plugin of the registry.
PluginStartup(p) ==
    /\ pc = "idle"
    /\ p \in plugins
    /\ \E ok \in BOOLEAN :
         LET r == plugin_startup(p, state[p], ok)
         IN  /\ state' = [state EXCEPT ![p] = r.state]
             /\ running_plugins' = Started(p, r)
             /\ hooks' = Logged(p, r)
             /\ ret' = [op |-> "plugin_startup", plugin |-> p,
                        result |-> IF r.thrown = NoExc THEN "ok" ELSE "exception",
                        exception |-> r.thrown, before |-> state[p]]
             /\ pc' = AfterCall(r.thrown)
    /\ UNCHANGED <<plugins, initialized_plugins, config_dir, files, io_serv,
                   waits, ready, idx, via, exc, sd>>

\* --------------------------------------------------------------- shutdown
\* A first loop that walks running_plugins from begin() to end().
shutdown_order_forward(running) == running

\* The order of shutdown's first loop: running_plugins from rbegin() to rend().
shutdown_order(running) == Reverse(running)

\* The call a shutdown entered through `who` belongs to.
CallOf(who) ==
    CASE who = "host" -> "shutdown"
      [] who = "startup" -> "startup"
      [] who = "exec" -> "exec"

\* The host calls application::shutdown.
ShutdownBegin ==
    /\ pc = "idle"
    /\ EnterShutdown("host")
    /\ ret' = InCall("shutdown")
    /\ UNCHANGED <<plugins, state, initialized_plugins, running_plugins,
                   config_dir, files, io_serv, waits, ready, exc, hooks>>

\* A shutdown() that runs the hook whatever the plugin's state.
plugin_shutdown_always(st) == [state |-> "stopped", hook |-> TRUE]

\* plugin::shutdown() on a plugin in state st: only a started plugin runs its
\* hook, and it becomes stopped.
plugin_shutdown(st) ==
    IF st = "started" THEN [state |-> "stopped", hook |-> TRUE]
    ELSE [state |-> st, hook |-> FALSE]

\* One turn of the first loop: (*ritr)->shutdown() is called.
ShutdownCallHook ==
    /\ pc = "sd_loop"
    /\ idx <= Len(running_plugins)
    /\ LET p == shutdown_order(running_plugins)[idx]
           r == plugin_shutdown(state[p])
       IN  /\ state' = [state EXCEPT ![p] = r.state]
           /\ IF r.hook
              THEN /\ hooks' = Append(hooks, [op |-> "shutdown", plugin |-> p,
                                              ok |-> TRUE])
                   /\ pc' = "sd_hook"
                   /\ idx' = idx
              ELSE /\ idx' = idx + 1
                   /\ UNCHANGED <<hooks, pc>>
    /\ UNCHANGED <<plugins, initialized_plugins, running_plugins, config_dir,
                   files, io_serv, waits, ready, via, exc, ret, sd>>

\* A single-pass shutdown: the plugin is erased as soon as its hook returns.
ShutdownHookReturnsErasing ==
    /\ pc = "sd_hook"
    /\ pc' = "sd_loop"
    /\ idx' = idx + 1
    /\ plugins' = plugins \ {Reverse(running_plugins)[idx]}
    /\ UNCHANGED <<state, initialized_plugins, running_plugins,
                   config_dir, files, io_serv, waits, ready, via, exc, ret,
                   hooks, sd>>

\* The shutdown hook returns: the loop moves on.
ShutdownHookReturns ==
    /\ pc = "sd_hook"
    /\ pc' = "sd_loop"
    /\ idx' = idx + 1
    /\ UNCHANGED <<plugins, state, initialized_plugins, running_plugins,
                   config_dir, files, io_serv, waits, ready, via, exc, ret,
                   hooks, sd>>

\* A shutdown that clears the containers on its way out when a hook throws.
ShutdownHookThrowsClearing ==
    /\ pc = "sd_hook"
    /\ pc' = "exited"
    /\ exc' = NoExc
    /\ plugins' = {}
    /\ state' = [p \in PluginNames |-> "absent"]
    /\ running_plugins' = <<>>
    /\ initialized_plugins' = <<>>
    /\ ret' = [op |-> CallOf(via), result |-> "exception",
               exception |-> [kind |-> "shutdown",
                              plugin |-> shutdown_order(running_plugins)[idx]]]
    /\ UNCHANGED <<config_dir, files, io_serv, waits, ready, idx, via, hooks, sd>>

\* The shutdown hook throws: nothing in shutdown, in startup's catch block or
\* in exec catches it, so it leaves the call the host made.
ShutdownHookThrows ==
    /\ pc = "sd_hook"
    /\ pc' = "exited"
    /\ exc' = NoExc
    /\ ret' = [op |-> CallOf(via), result |-> "exception",
               exception |-> [kind |-> "shutdown",
                              plugin |-> shutdown_order(running_plugins)[idx]]]
    /\ UNCHANGED <<plugins, state, initialized_plugins, running_plugins,
                   config_dir, files, io_serv, waits, ready, idx, via, hooks, sd>>

\* A shutdown that ends after its erase loop, without the clear() calls.
ShutdownFinishEraseOnly ==
    /\ pc = "sd_loop"
    /\ idx > Len(running_plugins)
    /\ plugins' = plugins \ Range(running_plugins)
    /\ state' = [p \in PluginNames |->
                   IF p \in Range(running_plugins) THEN "absent" ELSE state[p]]
    /\ io_serv' = [io_serv EXCEPT !.alive = FALSE]
    /\ waits' = {}
    /\ ready' = {}
    /\ pc' = "exited"
    /\ exc' = NoExc
    /\ ret' = IF via = "startup"
              THEN [op |-> "startup", result |-> "exception", exception |-> exc]
              ELSE [op |-> CallOf(via), result |-> "ok", exception |-> NoExc]
    /\ UNCHANGED <<running_plugins, initialized_plugins, config_dir, files,
                   idx, via, hooks, sd>>

\* After the first loop: the second loop erases the started plugins from the
\* registry, the three containers are cleared and io_serv is reset; then the
\* call returns (startup's catch block rethrows what it caught).
ShutdownFinish ==
    /\ pc = "sd_loop"
    /\ idx > Len(running_plugins)
    /\ plugins' = (plugins \ Range(running_plugins)) \cap {}
    /\ state' = [p \in PluginNames |-> "absent"]
    /\ running_plugins' = <<>>
    /\ initialized_plugins' = <<>>
    /\ io_serv' = [io_serv EXCEPT !.alive = FALSE]
    /\ waits' = {}
    /\ ready' = {}
    /\ pc' = AfterCall(IF via = "startup" THEN exc ELSE NoExc)
    /\ exc' = NoExc
    /\ ret' = IF via = "startup"
              THEN [op |-> "startup", result |-> "exception", exception |-> exc]
              ELSE [op |-> CallOf(via), result |-> "ok", exception |-> NoExc]
    /\ UNCHANGED <<config_dir, files, idx, via, hooks, sd>>

\* --------------------------------------------------------------- run loop
\* application::exec up to io_serv->run(): the three signal sets start their
\* waits and the thread enters the loop.
ExecBegin ==
    /\ pc = "idle"
    /\ io_serv.alive
    /\ waits' = Signals
    /\ pc' = "running"
    /\ ret' = InCall("exec")
    /\ UNCHANGED <<plugins, state, initialized_plugins, running_plugins,
                   config_dir, files, io_serv, ready, idx, via, exc, hooks, sd>>

\* The operating system delivers a signal a set is waiting for: the wait is
\* over and its handler is queued on the loop.
SignalArrives(s) ==
    /\ pc = "running"
    /\ s \in waits
    /\ waits' = waits \ {s}
    /\ ready' = ready \cup {s}
    /\ UNCHANGED <<plugins, state, initialized_plugins, running_plugins,
                   config_dir, files, io_serv, pc, idx, via, exc, ret, hooks, sd>>

\* The loop runs the handler of signal s: quit(), then cancel() on the
\* handler's own signal set, which has no wait left to cancel.
HandleSignal(s) ==
    /\ pc = "running"
    /\ ~io_serv.stopped
    /\ s \in ready
    /\ ready' = ready \ {s}
    /\ io_serv' = [io_serv EXCEPT !.stopped = TRUE]
    /\ waits' = waits \ {s}
    /\ UNCHANGED <<plugins, state, initialized_plugins, running_plugins,
                   config_dir, files, pc, idx, via, exc, ret, hooks, sd>>

\* application::quit, called by the host before exec or by work on the loop.
Quit ==
    /\ pc \in {"idle", "running"}
    /\ io_serv.alive
    /\ io_serv' = [io_serv EXCEPT !.stopped = TRUE]
    /\ ret' = IF pc = "idle"
              THEN [op |-> "quit", result |-> "ok", exception |-> NoExc]
              ELSE ret
    /\ UNCHANGED <<plugins, state, initialized_plugins, running_plugins,
                   config_dir, files, waits, ready, pc, idx, via, exc, hooks, sd>>

\* Whether io_serv->run() returns: only once the service is stopped (the three
\* pending waits keep it from running out of work).
run_returns(service) == service.stopped

\* io_serv->run() returns and exec calls shutdown().
RunReturns ==
    /\ pc = "running"
    /\ run_returns(io_serv)
    /\ EnterShutdown("exec")
    /\ UNCHANGED <<plugins, state, initialized_plugins, running_plugins,
                   config_dir, files, io_serv, waits, ready, exc, ret, hooks>>

\* ------------------------------------------------------- the specification
Cmd(given, dir, name, opts) ==
    [given |-> given, config_dir |-> dir, config |-> name, opts |-> opts]

\* A command line that carries only config-schema options.
PlainCmd(opts) == Cmd({}, <<>>, <<>>, opts)

\* The command lines of the lifecycle specification.
LifeCmds ==
    { PlainCmd(<<>>),
      PlainCmd(<< Entry("plugin", <<"B", ",", "A">>) >>),
      PlainCmd(<< Entry("plugin", <<"C">>) >>) }

Init ==
    /\ InitCommon
    /\ files = <<>>

Lifecycle ==
    \/ StartupBegin
    \/ StartupStep
    \/ StartupReturn
    \/ \E p \in PluginNames : PluginStartup(p)
    \/ ShutdownBegin
    \/ ShutdownCallHook
    \/ ShutdownHookReturns
    \/ ShutdownHookThrows
    \/ ShutdownFinish
    \/ ExecBegin
    \/ \E s \in Signals : SignalArrives(s)
    \/ \E s \in Signals : HandleSignal(s)
    \/ Quit
    \/ RunReturns

Next ==
    \/ \E p \in PluginNames : Register(p)
    \/ \E cmd \in LifeCmds : \E a \in Autostarts : Initialize(cmd, a)
    \/ Lifecycle

Spec == Init /\ [][Next]_vars

\* The host calls shutdown() on one plugin of the registry; the hook, if it
\* runs, returns or throws.
PluginShutdown(p) ==
    /\ pc = "idle"
    /\ p \in plugins
    /\ \E ok \in BOOLEAN :
         LET r == plugin_shutdown(state[p])
             thrown == IF r.hook /\ ~ok
                       THEN [kind |-> "shutdown", plugin |-> p] ELSE NoExc
         IN  /\ r.hook \/ ok
             /\ state' = [state EXCEPT ![p] = r.state]
             /\ hooks' = IF r.hook
                         THEN Append(hooks, [op |-> "shutdown", plugin |-> p,
                                             ok |-> TRUE])
                         ELSE hooks
             /\ ret' = [op |-> "plugin_shutdown", plugin |-> p,
                        result |-> IF thrown = NoExc THEN "ok" ELSE "exception",
                        exception |-> thrown, before |-> state[p]]
             /\ pc' = AfterCall(thrown)
    /\ UNCHANGED <<plugins, initialized_plugins, running_plugins, config_dir,
                   files, io_serv, waits, ready, idx, via, exc, sd>>

\* The lifecycle with plugins the host also stops one by one.
NextStop ==
    \/ Next
    \/ \E p \in PluginNames : PluginShutdown(p)

SpecStop == Init /\ [][NextStop]_vars

\* ------------------------------------------ the --plugin specification
\* The characters of a --plugin value: three plugin names and the separators.
ArgChars == {"A", "B", "C"} \cup Separators

PluginArgs == SeqsOf(ArgChars, 1, MaxArgLen)

\* Two longer --plugin values, with adjacent separators between two names.
LongPluginArgs == { <<"A", ",", ",", "B">>, <<"A", ",", " ", "B">> }

\* Command lines with one --plugin value, with two, and with none.
ArgCmds ==
    {PlainCmd(<< Entry("plugin", a) >>) : a \in PluginArgs \cup LongPluginArgs}
    \cup {PlainCmd(<< Entry("plugin", <<a>>), Entry("plugin", <<b>>) >>) :
            a, b \in {"A", "B"}}
    \cup {PlainCmd(<<>>)}

\* With plugin lines in the config file, a few command lines.
FewArgCmds ==
    { PlainCmd(<<>>),
      PlainCmd(<< Entry("plugin", <<"A">>) >>),
      PlainCmd(<< Entry("plugin", <<"B", ",", "A">>) >>),
      PlainCmd(<< Entry("plugin", <<"C">>) >>) }

DefaultConfigFile == DefaultConfigDir \o DefaultConfigName

\* The config files of this specification: none, or the default one with
\* plugin lines.
ArgFiles ==
    { <<>>,
      Put(<<>>, DefaultConfigFile, << Entry("plugin", <<"B">>) >>),
      Put(<<>>, DefaultConfigFile,
          << Comment("plugin"), Entry("plugin", <<"C", " ", "A">>) >>) }

InitArgs ==
    /\ InitCommon
    /\ files \in ArgFiles

InitializeArgs ==
    \E cmd \in (IF files = <<>> THEN ArgCmds ELSE FewArgCmds) :
        \E a \in Autostarts : Initialize(cmd, a)

NextArgs ==
    \/ \E p \in {<<"A">>, <<"B">>} : Register(p)
    \/ \E name \in PluginNames \cup {<<>>} : GetPlugin(name)
    \/ InitializeArgs

SpecArgs == InitArgs /\ [][NextArgs]_vars

\* --------------------------------------------- the options specification
\* The lines a config file is made of.
FileLines ==
    { Entry("foo", <<"t","r","u","e">>), Entry("foo", <<"f","a","l","s","e">>),
      Entry("bar", <<"1","0">>), Entry("bar", <<"2","0">>),
      Entry("bar", <<"0","1","0">>),
      Entry("lst", <<"x">>), Entry("lst", <<"y">>),
      Entry("odd", <<"1">>),
      Entry("nope", <<"1">>),
      Comment("bar") }

FileContents == SeqsOf(FileLines, 0, MaxFileLines)

\* The config-schema options a command line carries.
CliOptions ==
    { Entry("foo", <<"f","a","l","s","e">>), Entry("foo", <<"t","r","u","e">>),
      Entry("bar", <<"2","0">>), Entry("bar", <<"x">>),
      Entry("lst", <<"y">>) }

OptionCmds == {PlainCmd(o) : o \in SeqsOf(CliOptions, 0, 2)}

\* Command lines that name the config file, the config directory, or ask for
\* information only.
PathCmds ==
    { Cmd(flags \cup (IF dir = <<>> THEN {} ELSE {"config-dir"})
                \cup (IF name = <<>> THEN {} ELSE {"config"}),
          dir, name, <<>>) :
        flags \in {{}} \cup {{f} : f \in Flags},
        dir \in {<<>>, <<"/", "etc">>, <<"cfg">>},
        name \in {<<>>, <<"config.ini">>, <<"custom.ini">>,
                  <<"/", "etc", "config.ini">>} }

\* The config files that exist before the run: none, the default one with any
\* content, or one file elsewhere.
CfgFiles ==
    {<<>>}
    \cup {Put(<<>>, DefaultConfigFile, c) : c \in FileContents}
    \cup {Put(<<>>, f, << Entry("bar", <<"2","0">>) >>) :
            f \in { <<"/", "etc", "config.ini">>, <<"/", "etc", "custom.ini">>,
                    <<"config-dir", "custom.ini">> }}

InitCfg ==
    /\ InitCommon
    /\ files \in CfgFiles

\* The command lines tried on a state: config-schema options against the
\* default config file, the others everywhere else.
CfgCmds ==
    IF config_dir = DefaultConfigDir /\ DefaultConfigFile \in DOMAIN files
    THEN OptionCmds ELSE PathCmds

InitializeCfg ==
    \E cmd \in CfgCmds : \E a \in {<<>>, << <<"A">> >>} \cap Autostarts :
        Initialize(cmd, a)

NextCfg ==
    \/ Register(<<"A">>)
    \/ SetDefaultConfigDir(<<"/", "etc">>)
    \/ InitializeCfg

SpecCfg == InitCfg /\ [][NextCfg]_vars

\* ================================================================= claims
\* The plugins of the hook events e of kind op in a part of the log.
HookNames(log, op) ==
    LET hit == SelectSeq(log, LAMBDA e : e.op = op /\ e.ok)
    IN  [i \in DOMAIN hit |-> hit[i].plugin]

\* The shutdown hooks invoked since the shutdown in progress (or the last one)
\* began.
ShutSince == HookNames(SubSeq(hooks, sd.mark + 1, Len(hooks)), "shutdown")

\* A call of the host that ran shutdown() to its end: shutdown itself, exec,
\* or a startup whose catch block rethrew what it had caught.
ShutdownCompleted ==
    /\ pc \in {"idle", "exited"}
    /\ ret.op \in {"shutdown", "exec", "startup"}
    /\ \/ ret.op \in {"shutdown", "exec"} /\ ret.result = "ok"
       \/ ret.op = "startup" /\ ret.result = "exception"
                             /\ ret.exception.kind = "startup"

\* C1: shutdown invokes the shutdown hooks in the reverse of the start order:
\* until a shutdown hook has run the started-order list is the order in which
\* the startup hooks succeeded; the hooks a shutdown has invoked so far are the
\* first ones of the reversed list, one at a time (the next is called only
\* when the loop is back from the previous one); and a shutdown that runs to
\* its end has invoked exactly the reversed list.
C1_ShutdownReversesStartOrder ==
    /\ HookNames(hooks, "shutdown") = <<>> =>
         running_plugins = HookNames(hooks, "startup")
    /\ pc \in {"sd_loop", "sd_hook"} =>
         /\ sd.running = running_plugins
         /\ IsPrefix(ShutSince, Reverse(sd.running))
         /\ Len(ShutSince) = IF pc = "sd_hook" THEN idx ELSE idx - 1
    /\ ShutdownCompleted => ShutSince = Reverse(sd.running)

\* Three plugins were started in an order that is not the registry's, and a
\* shutdown called their hooks in the reverse order.
C1_Witness ==
    /\ ShutdownCompleted
    /\ ret.op = "shutdown"
    /\ sd.running = << <<"B">>, <<"A">>, <<"C">> >>
    /\ ShutSince = << <<"C">>, <<"A">>, <<"B">> >>

\* The plugins whose shutdown hook has been called, returning or throwing,
\* since the shutdown in progress (or the last one) began.
ShutCalled ==
    LET hit == SelectSeq(SubSeq(hooks, sd.mark + 1, Len(hooks)),
                         LAMBDA e : e.op = "shutdown")
    IN  { hit[i].plugin : i \in DOMAIN hit }

\* The startup hook invocations that failed.
FailedStartups == SelectSeq(hooks, LAMBDA e : e.op = "startup" /\ ~e.ok)

\* C2: when startup fails on a plugin, every plugin started before it has had
\* its shutdown hook called by the time the failure reaches the caller, and
\* the failure the caller sees is the one the startup hook raised.
C2_StartupFailureUnwinds ==
    ret.op = "startup" /\ ret.result = "exception" =>
        /\ Range(sd.running) \subseteq ShutCalled
        /\ ret.exception.kind = "startup"
        /\ ret.exception.plugin = FailedStartups[Len(FailedStartups)].plugin

\* C3: a plugin's state only moves registered -> initialized -> started (then
\* stopped, or out of the registry), and startup() on a plugin that is still
\* registered fails with an invalid-state error and leaves it registered.
AllowedMoves ==
    { <<"absent", "registered">>, <<"registered", "initialized">>,
      <<"initialized", "started">>, <<"started", "stopped">>,
      <<"registered", "absent">>, <<"initialized", "absent">>,
      <<"started", "absent">>, <<"stopped", "absent">> }

C3_StateMachine ==
    /\ [][\A p \in PluginNames :
            state'[p] # state[p] => <<state[p], state'[p]>> \in AllowedMoves]_vars
    /\ [](\A p \in PluginNames :
            state[p] \in {"started", "stopped"} =>
                p \in Range(initialized_plugins))
    /\ [](ret.op = "plugin_startup" /\ ret.before = "registered" =>
            /\ ret.result = "exception"
            /\ ret.exception.kind = "invalid-state"
            /\ state[ret.plugin] = "registered"
            /\ ret.plugin \notin Range(running_plugins))

\* startup() was called on a registered plugin and was refused.
C3_Witness ==
    /\ ret.op = "plugin_startup"
    /\ ret.before = "registered"
    /\ ret.result = "exception"
    /\ \E p \in PluginNames : state[p] = "started"

\* C4: while a shutdown hook is executing, every plugin that was in the
\* registry when shutdown began is still in it.
C4_RegistryKeptDuringHooks ==
    pc \in {"sd_loop", "sd_hook"} /\ idx <= Len(running_plugins) =>
        sd.registry \subseteq plugins

\* The second shutdown hook is executing, and the plugin whose hook has
\* already run is still registered.
C4_Witness ==
    /\ pc = "sd_hook"
    /\ idx = 2
    /\ Reverse(running_plugins)[1] \in plugins
    /\ state[Reverse(running_plugins)[1]] = "stopped"
    /\ Cardinality(sd.registry) = 3

\* C5: shutdown hooks run only after the loop has been stopped and left, and
\* when exec hands control back to its caller shutdown has run to completion:
\* every started plugin's shutdown hook was invoked and the registry is empty.
C5_ExecShutsDownBeforeReturn ==
    /\ pc = "sd_hook" /\ via = "exec" => io_serv.stopped
    /\ ret.op = "exec" /\ ret.result # "pending" =>
         /\ ret.result = "ok"
         /\ ShutSince = Reverse(sd.running)
         /\ plugins = {}
         /\ running_plugins = <<>>

\* ------------------------------------------------- claims on initialize
\* The tokens a source supplies for an option, in order.
Supplied(entries, key) ==
    LET hit == SelectSeq(entries, LAMBDA e : e.kind = "entry" /\ e.key = key)
    IN  [i \in DOMAIN hit |-> hit[i].value]

\* The config file the last initialize call resolved, and what it held before
\* the call.
LastCfgFile ==
    ConfigFileName(ret.cmd, ConfigDir(ret.cmd, ret.before.config_dir))

LastFileLines ==
    IF LastCfgFile \in DOMAIN ret.before.files
    THEN ret.before.files[LastCfgFile] ELSE <<>>

\* The plugin names the last initialize call was asked for: the --plugin
\* values of the command line, then those of the config file.
RequestedNames ==
    SplitAll(Supplied(ret.cmd.opts, "plugin") \o Supplied(LastFileLines, "plugin"), 1)

NoDuplicates(seq) == \A i, j \in DOMAIN seq : seq[i] = seq[j] => i = j

\* C6: --plugin "A,B" and --plugin "A B" (or a tab) both initialize exactly A
\* and B, in that order and once each, whatever the autostart list holds; in
\* general the initialized plugins are the named ones and the autostart ones,
\* and the initialized-order list never holds a plugin twice.
C6_PluginListActivatesOnce ==
    ret.op = "initialize" =>
        /\ NoDuplicates(initialized_plugins)
        /\ ret.result = "true" =>
             Range(initialized_plugins) =
                Range(RequestedNames) \cup (Range(ret.autostart) \ {nullptr})
        /\ \A sep \in {",", " ", TAB} :
             /\ ret.cmd.opts = << Entry("plugin", <<"A", sep, "B">>) >>
             /\ ret.before.files = <<>>
             /\ ret.before.plugins = { <<"A">>, <<"B">> }
             => /\ ret.result = "true"
                /\ initialized_plugins = << <<"A">>, <<"B">> >>
                /\ state = [p \in PluginNames |->
                              IF p \in { <<"A">>, <<"B">> } THEN "initialized"
                              ELSE "absent"]

\* --plugin "A B" with both plugins in the autostart list too.
C6_Witness ==
    /\ ret.op = "initialize"
    /\ ret.cmd.opts = << Entry("plugin", <<"A", " ", "B">>) >>
    /\ ret.autostart = << <<"B">>, <<"A">> >>
    /\ ret.result = "true"
    /\ initialized_plugins = << <<"A">>, <<"B">> >>

\* The value of the option after the merge that the precedence rule asks for:
\* the command line's if it supplies one, else the config file's, else the
\* default; "none" when no layer has one.
TypedAll(od, toks) ==
    IF od.type = "vector<string>" THEN toks ELSE ParseValue(od, <<>>, toks[1])

Resolved(od) ==
    IF od.name \in DOMAIN ret.options
    THEN <<"value", ret.options[od.name]>> ELSE <<"none">>

ByPrecedence(od) ==
    LET cli == Supplied(ret.cmd.opts, od.name)
        file == Supplied(LastFileLines, od.name)
    IN  IF cli # <<>> THEN <<"value", TypedAll(od, cli)>>
        ELSE IF file # <<>> THEN <<"value", TypedAll(od, file)>>
        ELSE IF od.has_default THEN <<"value", od.default>>
        ELSE <<"none">>

\* A composing option accumulates: the command line's values, then the config
\* file's.
Accumulated(od) ==
    LET all == Supplied(ret.cmd.opts, od.name) \o Supplied(LastFileLines, od.name)
    IN  IF all # <<>> THEN <<"value", all>>
        ELSE IF od.has_default THEN <<"value", od.default>>
        ELSE <<"none">>

\* C7 as stated: for every option the resolved value is the command line's if
\* it supplies one, else the config file's, else the default.
C7_PrecedenceEveryOption ==
    ret.op = "initialize" /\ ret.result = "true" =>
        \A i \in DOMAIN cfg_options : Resolved(cfg_options[i]) = ByPrecedence(cfg_options[i])

\* C7 amended: that precedence holds for every option that is not composing;
\* a composing option holds the command line's values followed by the config
\* file's (its default only when neither supplies one).
C7_Precedence ==
    ret.op = "initialize" /\ ret.result = "true" =>
        \A i \in DOMAIN cfg_options :
            Resolved(cfg_options[i]) =
                IF cfg_options[i].composing THEN Accumulated(cfg_options[i])
                ELSE ByPrecedence(cfg_options[i])

\* Default false, config file foo = true, command line --foo=false: false.
C7_Witness ==
    /\ ret.op = "initialize"
    /\ ret.result = "true"
    /\ ret.cmd.opts = << Entry("foo", <<"f","a","l","s","e">>) >>
    /\ LastFileLines = << Entry("foo", <<"t","r","u","e">>) >>
    /\ ret.options["foo"] = FALSE

\* C8: an option with a default (of a type that has a comparison) is in the
\* redundant-default list exactly when the config file supplies a value for it
\* and that value equals the default.
C8_RedundantIffFileEqualsDefault ==
    ret.op = "initialize" /\ ret.result = "true" =>
        \A i \in DOMAIN cfg_options :
            LET od == cfg_options[i]
                file == Supplied(LastFileLines, od.name)
            IN  od.has_default /\ od.type \in any_compare_map =>
                  (od.name \in Range(ret.set_but_default_list)
                     <=> file # <<>> /\ TypedAll(od, file) = od.default)

\* C9: a missing config file is synthesized from the template when it is
\* <config-dir>/config.ini, and initialization goes on; any other missing
\* config file makes initialize fail without writing a file or initializing
\* a plugin.
C9_MissingConfigFile ==
    /\ ret.op = "initialize"
    /\ ret.cmd.given \cap Flags = {}
    /\ ret.why # "invalid-value"
    /\ LastCfgFile \notin DOMAIN ret.before.files
    => IF LastCfgFile = ConfigDir(ret.cmd, ret.before.config_dir) \o <<"config.ini">>
       THEN /\ files = Put(ret.before.files, LastCfgFile, print_default_config)
            /\ ret.result = "true"
            /\ Range(initialized_plugins) = Range(ret.autostart) \ {nullptr}
       ELSE /\ ret.result = "false"
            /\ ret.why = "config-missing"
            /\ files = ret.before.files
            /\ state = ret.before.state
            /\ initialized_plugins = <<>>

\* custom.ini is missing and an autostart plugin is waiting: initialize fails
\* and the plugin stays registered.
C9_Witness ==
    /\ ret.op = "initialize"
    /\ ret.cmd.given = {"config"}
    /\ ret.cmd.config = <<"custom.ini">>
    /\ ret.autostart = << <<"A">> >>
    /\ ret.result = "false"
    /\ ret.why = "config-missing"
    /\ state[<<"A">>] = "registered"
    /\ files = <<>>

\* C10: get_plugin returns the plugin exactly when the registry holds the name
\* and never changes the registry; initialize throws exactly when a requested
\* name is not in the registry (it is never skipped), and otherwise every
\* requested plugin is initialized.
C10_UnknownPluginFails ==
    /\ ret.op = "get_plugin" =>
         /\ ret.result = "ok" <=> ret.name \in ret.before.plugins
         /\ plugins = ret.before.plugins
    /\ ret.op = "initialize" =>
         /\ plugins = ret.before.plugins
         /\ ret.result \in {"true", "exception"}
         /\ ret.result = "exception"
              <=> \E i \in DOMAIN RequestedNames : RequestedNames[i] \notin plugins
         /\ ret.result = "exception" => ret.why = "plugin-not-found"
         /\ ret.result = "true" =>
              Range(RequestedNames) \subseteq Range(initialized_plugins)

\* --plugin "A,C" with only A registered: A is initialized, then C is not
\* found and initialize throws.
C10_Witness ==
    /\ ret.op = "initialize"
    /\ ret.cmd.opts = << Entry("plugin", <<"A", ",", "C">>) >>
    /\ <<"A">> \in plugins
    /\ ret.result = "exception"
    /\ ret.why = "plugin-not-found"
    /\ initialized_plugins = << <<"A">> >>

\* C11: with --help, --version or --print-default-config on the command line
\* initialize returns false, the config file is neither read (no option takes
\* a value from it) nor created, no plugin is initialized (each stays registered, the initialized-order list
\* stays empty), and the host never gets to the run loop.
C11_FlagsStopInitialize ==
    /\ ret.op = "initialize"
    /\ ret.cmd.given \cap Flags # {}
    /\ ret.why # "invalid-value"
    => /\ ret.result = "false"
       /\ ret.why \in Flags
       /\ \A i \in DOMAIN cfg_options :
            LET od == cfg_options[i]
            IN  Supplied(ret.cmd.opts, od.name) = <<>> =>
                  Resolved(od) = IF od.has_default THEN <<"value", od.default>>
                                 ELSE <<"none">>
       /\ files = ret.before.files
       /\ config_dir = ret.before.config_dir
       /\ state = ret.before.state
       /\ \A p \in plugins : state[p] = "registered"
       /\ initialized_plugins = <<>>
       /\ pc = "exited"
       /\ waits = {}

\* --help with an autostart plugin waiting and no config file on disk: none
\* is written and the plugin stays registered.
C11_Witness ==
    /\ ret.op = "initialize"
    /\ ret.cmd.given = {"help"}
    /\ ret.autostart = << <<"A">> >>
    /\ ret.result = "false"
    /\ files = <<>>
    /\ state[<<"A">>] = "registered"
    /\ pc = "exited"

\* C12: the default-config template, parsed through the config schema,
\* supplies no explicit value, so every option with a default resolves to that
\* default; a config file initialize has just synthesized leaves the
\* redundant-default list empty.
C12_TemplateRoundTrip ==
    /\ ret.op = "initialize"
    /\ ret.cmd.given \cap Flags = {}
    /\ ret.why # "invalid-value"
    /\ LastCfgFile \notin DOMAIN ret.before.files
    /\ LastCfgFile \in DOMAIN files
    => /\ files[LastCfgFile] = print_default_config
       /\ parse_config_file(files[LastCfgFile], cfg_options) =
             [ok |-> TRUE, options |-> <<>>]
       /\ ret.result = "true"
       /\ ret.set_but_default_list = <<>>
       /\ ret.unregistered = <<>>
       /\ \A i \in DOMAIN cfg_options :
            LET od == cfg_options[i]
            IN  Supplied(ret.cmd.opts, od.name) = <<>> =>
                  Resolved(od) = IF od.has_default THEN <<"value", od.default>>
                                 ELSE <<"none">>

\* /etc/config.ini is synthesized under --config-dir /etc and read back: bar
\* has its default 10 and nothing is reported as redundant.
C12_Witness ==
    /\ ret.op = "initialize"
    /\ ret.cmd.given = {"config-dir"}
    /\ ret.cmd.config_dir = <<"/", "etc">>
    /\ ret.before.files = <<>>
    /\ DOMAIN files = { <<"/", "etc", "config.ini">> }
    /\ ret.result = "true"
    /\ ret.options["bar"] = 10
    /\ ret.options["lst"] = << <<"x">> >>
    /\ ret.set_but_default_list = <<>>

\* C13: when the run loop handles one of the three termination signals, the
\* handler calls quit() and cancels the pending waits of the other two
\* signals.
C13_HandlerCancelsOtherWaits ==
    [][\A s \in Signals :
          HandleSignal(s) =>
             /\ io_serv'.stopped
             /\ waits' \cap (Signals \ {s}) = {}]_vars

\* A call of the host that a throwing shutdown hook has ended.
ShutdownHookFailed ==
    /\ ret.op \in {"shutdown", "startup", "exec"}
    /\ ret.result = "exception"
    /\ ret.exception.kind = "shutdown"

\* C14: when a shutdown hook throws, shutdown stops there: the hooks called
\* are those of the plugins from the end of the started-order list down to
\* the one that threw, no plugin earlier in the list has its hook called, and
\* the registry, the initialized-order list and the started-order list are
\* as they were when shutdown began; nothing happens afterwards.
C14_ShutdownHookFailureHalts ==
    /\ [](ShutdownHookFailed =>
            LET order == Reverse(sd.running)
                k == CHOOSE i \in DOMAIN order : order[i] = ret.exception.plugin
            IN  /\ ret.exception.plugin \in Range(sd.running)
                /\ ShutCalled = {order[i] : i \in 1..k}
                /\ \A i \in (k + 1)..Len(order) :
                     /\ order[i] \notin ShutCalled
                     /\ state[order[i]] = "started"
                /\ plugins = sd.registry
                /\ sd.registry # {}
                /\ initialized_plugins = sd.initialized
                /\ running_plugins = sd.running
                /\ io_serv.alive)
    /\ [][ShutdownHookFailed => UNCHANGED vars]_vars

\* A, B and C were started in that order; C's hook returned, B's threw, and
\* A, still started and registered, never had its hook called.
C14_Witness ==
    /\ ShutdownHookFailed
    /\ sd.running = << <<"A">>, <<"B">>, <<"C">> >>
    /\ ret.exception.plugin = <<"B">>
    /\ ShutCalled = { <<"B">>, <<"C">> }
    /\ state[<<"A">>] = "started"
    /\ <<"A">> \in plugins

\* The plugins whose startup hook has been invoked, whatever came of it.
StartupCalled ==
    LET hit == SelectSeq(hooks, LAMBDA e : e.op = "startup")
    IN  { hit[i].plugin : i \in DOMAIN hit }

\* C15: startup() walks the initialized-order list from its first plugin: at
\* each turn the plugins before the current one are already started, the hook
\* invoked is that of the current plugin of the list, a plugin that becomes
\* started is appended to the started-order list; when startup() returns
\* every initialized plugin is started; and a plugin that is registered but
\* was never initialized has had no startup hook invoked and is not in the
\* started-order list.
C15_StartupInInitializedOrder ==
    /\ [](pc = "startup" =>
            \A i \in 1..(idx - 1) :
                /\ i <= Len(initialized_plugins)
                /\ state[initialized_plugins[i]] = "started"
                /\ initialized_plugins[i] \in Range(running_plugins))
    /\ [](ret.op = "startup" /\ ret.result = "ok" =>
            /\ \A p \in Range(initialized_plugins) : state[p] = "started"
            /\ Range(running_plugins) = Range(initialized_plugins)
            /\ NoDuplicates(running_plugins))
    /\ [](\A p \in PluginNames :
            state[p] = "registered" =>
                p \notin StartupCalled /\ p \notin Range(running_plugins))
    /\ [](StartupCalled \subseteq Range(initialized_plugins) \/ plugins = {})
    /\ [][StartupStep =>
            LET p == initialized_plugins[idx]
            IN  /\ state[p] = "initialized" =>
                     /\ Len(hooks') = Len(hooks) + 1
                     /\ hooks'[Len(hooks')].op = "startup"
                     /\ hooks'[Len(hooks')].plugin = p
                /\ state[p] # "initialized" => hooks' = hooks
                /\ running_plugins' =
                     IF state[p] = "initialized" /\ state'[p] = "started"
                     THEN Append(running_plugins, p) ELSE running_plugins
                /\ \A q \in PluginNames \ {p} : state'[q] = state[q]]_vars

\* --plugin "B,A" initialized B before A; startup() ran B's hook, then A's,
\* and the registered plugin C was left alone.
C15_Witness ==
    /\ ret.op = "startup"
    /\ ret.result = "ok"
    /\ initialized_plugins = << <<"B">>, <<"A">> >>
    /\ running_plugins = << <<"B">>, <<"A">> >>
    /\ HookNames(hooks, "startup") = << <<"B">>, <<"A">> >>
    /\ state[<<"C">>] = "registered"

\* C16: when shutdown has run to its end with no hook failing (called by the
\* host, by exec, or by startup's catch block after a failed startup), the
\* registry, the initialized-order list and the started-order list are empty,
\* and no plugin object is left in any state.
C16_ShutdownClearsEverything ==
    ShutdownCompleted =>
        /\ plugins = {}
        /\ initialized_plugins = <<>>
        /\ running_plugins = <<>>
        /\ \A p \in PluginNames : state[p] = "absent"

\* startup() failed on its second plugin with a third one only registered;
\* the unwind shut the first one down and emptied the registry.
C16_Witness ==
    /\ ShutdownCompleted
    /\ ret.op = "startup"
    /\ Cardinality(sd.registry) = 3
    /\ Len(sd.initialized) = 2
    /\ Len(sd.running) = 1
    /\ ShutCalled = Range(sd.running)
    /\ plugins = {}
    /\ initialized_plugins = <<>>

\* C17: an option whose default has a type with no registered comparison is
\* never in the redundant-default list; when the config file sets it, it is
\* reported on its own, initialize goes on, and the options that come after
\* it in the schema are still compared with their defaults.
C17_UnregisteredTypeIsSkipped ==
    /\ ret.op = "initialize" /\ ret.result = "true" =>
         \A i \in DOMAIN cfg_options :
            LET od == cfg_options[i]
                file == Supplied(LastFileLines, od.name)
            IN  /\ od.has_default /\ od.type \notin any_compare_map =>
                     /\ od.name \notin Range(ret.set_but_default_list)
                     /\ od.name \in Range(ret.unregistered) <=> file # <<>>
                /\ od.has_default /\ od.type \in any_compare_map =>
                     /\ od.name \notin Range(ret.unregistered)
                     /\ Len(file) = 1 =>
                          (od.name \in Range(ret.set_but_default_list)
                             <=> TypedAll(od, file) = od.default)
    /\ /\ ret.op = "initialize"
       /\ ret.cmd = PlainCmd(<<>>)
       /\ Entry("odd", <<"1">>) \in Range(LastFileLines)
       /\ Range(LastFileLines) \subseteq
             {Entry("odd", <<"1">>), Entry("bar", <<"1", "0">>),
              Entry("bar", <<"2", "0">>), Comment("bar")}
       /\ Len(Supplied(LastFileLines, "odd")) = 1
       /\ Len(Supplied(LastFileLines, "bar")) <= 1
       => /\ ret.result = "true"
          /\ ret.unregistered = <<"odd">>
          /\ ret.set_but_default_list =
                IF Entry("bar", <<"1", "0">>) \in Range(LastFileLines)
                THEN <<"bar">> ELSE <<>>

\* The file sets odd = 1 (its default, of a type without comparison) and then
\* bar = 10: odd is reported on its own and bar, which comes later in the
\* schema, is still found redundant.
C17_Witness ==
    /\ ret.op = "initialize"
    /\ LastFileLines = << Entry("odd", <<"1">>), Entry("bar", <<"1", "0">>) >>
    /\ ret.result = "true"
    /\ ret.unregistered = <<"odd">>
    /\ ret.set_but_default_list = <<"bar">>
    /\ ret.options["odd"] = 1

\* The plugins of all the shutdown hook invocations of the run, in order.
ShutdownHooks ==
    LET hit == SelectSeq(hooks, LAMBDA e : e.op = "shutdown")
    IN  [i \in DOMAIN hit |-> hit[i].plugin]

\* C18: over a whole run no plugin has its shutdown hook invoked twice; a
\* shutdown hook is invoked only on a plugin that is started and in the
\* started-order list; and a shutdown that runs to its end has emptied the
\* registry without invoking the hook of any plugin that was only registered
\* or only initialized.
C18_ShutdownHookAtMostOnce ==
    /\ [](NoDuplicates(ShutdownHooks))
    /\ [][hooks' # hooks /\ hooks'[Len(hooks')].op = "shutdown" =>
            LET p == hooks'[Len(hooks')].plugin
            IN  /\ p \in Range(running_plugins)
                /\ state[p] = "started"
                /\ hooks' = Append(hooks, hooks'[Len(hooks')])]_vars
    /\ [](ShutdownCompleted =>
            /\ plugins = {}
            /\ \A p \in sd.registry \ Range(sd.running) :
                  p \notin Range(ShutdownHooks))

\* A was started and B only initialized, C only registered; the host stopped
\* A, then shutdown() ran to its end without invoking A's hook again or any
\* hook of B and C.
C18_Witness ==
    /\ ShutdownCompleted
    /\ ret.op = "shutdown"
    /\ sd.registry = PluginNames
    /\ sd.initialized = << <<"A">>, <<"B">> >>
    /\ sd.running = << <<"A">> >>
    /\ sd.mark = Len(hooks)
    /\ ShutdownHooks = << <<"A">> >>
    /\ plugins = {}

\* The fields of a --plugin value, by position: field k lies between the
\* (k-1)-th and the k-th separator.
SeparatorsAt(v) == {i \in DOMAIN v : v[i] \in Separators}

Boundary(v, k) ==
    IF k = 0 THEN 0
    ELSE IF k > Cardinality(SeparatorsAt(v)) THEN Len(v) + 1
    ELSE CHOOSE i \in SeparatorsAt(v) :
            Cardinality({j \in SeparatorsAt(v) : j < i}) = k - 1

Fields(v) ==
    [k \in 1..(Cardinality(SeparatorsAt(v)) + 1) |->
        SubSeq(v, Boundary(v, k - 1) + 1, Boundary(v, k) - 1)]

HasEmptyField(v) ==
    \/ v[1] \in Separators
    \/ v[Len(v)] \in Separators
    \/ \E i \in 1..(Len(v) - 1) : v[i] \in Separators /\ v[i + 1] \in Separators

\* C19: a --plugin value is cut at every single space, tab or comma, adjacent
\* separators are not merged: a value without leading, trailing or adjacent
\* separators gives its names in order, any other value gives an empty name;
\* initialize goes through the fields in order, and at the first one the
\* registry does not hold (an empty name never is held) it throws
\* plugin-not-found with the plugins of the fields before it initialized.
C19_SplitWithoutCompression ==
    /\ ret.op = "initialize"
    /\ Len(ret.cmd.opts) = 1
    /\ ret.before.files = <<>>
    => LET v == ret.cmd.opts[1].value
           f == Fields(v)
           bad == {k \in DOMAIN f : f[k] \notin ret.before.plugins}
           first == CHOOSE k \in bad : \A j \in bad : k <= j
       IN  /\ split(v) = f
           /\ HasEmptyField(v) <=> \E k \in DOMAIN f : f[k] = <<>>
           /\ HasEmptyField(v) => bad # {}
           /\ IF bad = {}
              THEN /\ ret.result = "true"
                   /\ \A k \in DOMAIN f : f[k] \in Range(initialized_plugins)
              ELSE /\ ret.result = "exception"
                   /\ ret.why = "plugin-not-found"
                   /\ Range(initialized_plugins) = {f[k] : k \in 1..(first - 1)}
                   /\ NoDuplicates(initialized_plugins)

\* --plugin "A,,B": A is initialized, then the empty name between the two
\* commas is looked up and initialize throws before B.
C19_Witness ==
    /\ ret.op = "initialize"
    /\ ret.cmd.opts = << Entry("plugin", <<"A", ",", ",", "B">>) >>
    /\ ret.before.plugins = { <<"A">>, <<"B">> }
    /\ ret.result = "exception"
    /\ ret.why = "plugin-not-found"
    /\ initialized_plugins = << <<"A">> >>
    /\ state[<<"B">>] = "registered"

\* C20: plugin is an option of the config file too, and composing: the
\* resolved plugin option holds the command line's values followed by the
\* config file's, the plugins initialized through it are those named on the
\* command line together with those named in the config file, and a name the
\* config file gives is looked up like one of the command line.
C20_PluginOptionUnion ==
    ret.op = "initialize" =>
        LET cli == Supplied(ret.cmd.opts, "plugin")
            file == Supplied(LastFileLines, "plugin")
            named == Range(SplitAll(cli, 1)) \cup Range(SplitAll(file, 1))
        IN  /\ ret.why # "unknown-option"
            /\ ret.result = "true" =>
                 /\ IF cli \o file = <<>> THEN "plugin" \notin DOMAIN ret.options
                    ELSE ret.options["plugin"] = cli \o file
                 /\ named \subseteq Range(initialized_plugins)
                 /\ Range(initialized_plugins) \subseteq
                       named \cup Range(ret.autostart)
                 /\ Range(SubSeq(initialized_plugins, 1, Cardinality(named))) = named
            /\ (\E n \in named : n \notin ret.before.plugins) =>
                 ret.result = "exception" /\ ret.why = "plugin-not-found"

\* --plugin A on the command line and plugin = B in the config file: both
\* are initialized, A first.
C20_Witness ==
    /\ ret.op = "initialize"
    /\ ret.cmd.opts = << Entry("plugin", <<"A">>) >>
    /\ LastFileLines = << Entry("plugin", <<"B">>) >>
    /\ ret.autostart = <<>>
    /\ ret.result = "true"
    /\ ret.options["plugin"] = << <<"A">>, <<"B">> >>
    /\ initialized_plugins = << <<"A">>, <<"B">> >>

====
